---- MODULE Spec2Model ----
(***************************************************************************)
(* Model of modules/webui/webui_utils.py: the web-UI request handlers      *)
(* load_spk_info, segments_length_limit, synthesize_ssml, tts_generate and *)
(* split_long_text.  Each handler is one action; its inputs and the        *)
(* results of the collaborators it calls (parser, style registry,          *)
(* normaliser, synthesiser, enhancer) are drawn from small sets.  The      *)
(* state records the last call: the handler, its arguments, what the       *)
(* collaborators answered, the calls it made in order, and its result.     *)
(***************************************************************************)
EXTENDS Integers, Sequences, FiniteSets

VARIABLES op, args, env, calls, result

vars == <<op, args, env, calls, result>>

(***************************************************************************)
(* Bounds of the model.                                                    *)
(***************************************************************************)
\* longest text / SSML string entered by the user
MaxTextLen == 3
\* longest text of one SSML segment
MaxSegLen == 2
\* most segments the SSML parser returns
MaxSegs == 3
\* largest configured length limit (webui_config.tts_max, webui_config.ssml_max)
MaxLimit == 3
\* most sentences the sentence splitter returns
MaxSentences == 2

(***************************************************************************)
(* Python values.  A string is the sequence of its code points.  An       *)
(* int n is kept as two limbs, n = hi * 2^16 + lo with 0 <= lo < 2^16, so  *)
(* that 2^32 - 1 and its neighbours are exact; a float is kept as its      *)
(* number of tenths in the same two limbs.                                 *)
(***************************************************************************)
Limb == 2 ^ 16

PyNone == [t |-> "None", hi |-> 0, lo |-> 0, s |-> <<>>]

PyBig(h, l) == [t |-> "int", hi |-> h, lo |-> l, s |-> <<>>]

PyInt(n) == PyBig(n \div Limb, n % Limb)

PyFloat(tenths) == [t |-> "float", hi |-> tenths \div Limb, lo |-> tenths % Limb, s |-> <<>>]

PyStr(chars) == [t |-> "str", hi |-> 0, lo |-> 0, s |-> chars]

\* an argument the caller left out: the parameter takes the signature's default
Omitted == [t |-> "omitted", hi |-> 0, lo |-> 0, s |-> <<>>]

Bind(x, default) == IF x.t = "omitted" THEN default ELSE x

\* the number a small int stands for, or the tenths a float stands for
Small(x) == x.hi * Limb + x.lo

\* a < b on two ints
IntLess(a, b) == a.hi < b.hi \/ (a.hi = b.hi /\ a.lo < b.lo)

\* Python truth value: None, 0, 0.0 and "" are false
Truthy(x) ==
    CASE x.t = "None" -> FALSE
      [] x.t = "str" -> x.s # <<>>
      [] OTHER -> ~(x.hi = 0 /\ x.lo = 0)

\* a or b
PyOr(a, b) == IF Truthy(a) THEN a ELSE b

\* d.get(k, default) on a dict kept as a function
DictGet(d, k, default) == IF k \in DOMAIN d THEN d[k] ELSE default

\* truncation toward zero of tenths / 10
TruncTenths(n) == IF n >= 0 THEN n \div 10 ELSE -((-n) \div 10)

\* the characters c with c.isspace(), which str.strip() removes
SpaceChars ==
    {9, 10, 11, 12, 13, 28, 29, 30, 31, 32, 133, 160, 5760, 8232, 8233, 8239, 8287, 12288}
    \cup 8192..8202

IsSpace(c) == c \in SpaceChars

RECURSIVE lstrip(_)
lstrip(s) == IF s # <<>> /\ IsSpace(Head(s)) THEN lstrip(Tail(s)) ELSE s

RECURSIVE rstrip(_)
rstrip(s) == IF s # <<>> /\ IsSpace(s[Len(s)]) THEN rstrip(SubSeq(s, 1, Len(s) - 1)) ELSE s

\* str.strip()
strip(s) == rstrip(lstrip(s))

\* the digit zero of every decimal digit block of Unicode (category Nd); the other
\* nine digits of a block follow their zero
DigitZeros ==
    {48, 1632, 1776, 1984, 2406, 2534, 2662, 2790, 2918, 3046, 3174, 3302, 3430, 3558,
     3664, 3792, 3872, 4160, 4240, 6112, 6160, 6470, 6608, 6784, 6800, 6992, 7088, 7232,
     7248, 42528, 43216, 43264, 43472, 43504, 43600, 44016, 65296, 66720, 68912, 69734,
     69872, 69942, 70096, 70384, 70736, 70864, 71248, 71360, 71472, 71904, 72016, 72784,
     73040, 73120, 92768, 92864, 93008, 120782, 120792, 120802, 120812, 120822, 123200,
     123632, 125264, 130032}

\* whether int() reads c as a decimal digit
IsDigit(c) == \E z \in DigitZeros : c \in z..(z + 9)

DigitVal(c) == c - (CHOOSE z \in DigitZeros : c \in z..(z + 9))

\* the value of a run of digits, in two limbs
RECURSIVE DigitsVal(_)
DigitsVal(ds) ==
    IF ds = <<>> THEN [hi |-> 0, lo |-> 0]
    ELSE LET p == DigitsVal(SubSeq(ds, 1, Len(ds) - 1))
             n == p.lo * 10 + DigitVal(ds[Len(ds)])
         IN  [hi |-> p.hi * 10 + n \div Limb, lo |-> n % Limb]

\* ds without its leading zeros, which add nothing to its value
Significant(ds) ==
    LET nz == {i \in 1..Len(ds) : DigitVal(ds[i]) # 0}
    IN  IF nz = {} THEN <<>>
        ELSE SubSeq(ds, CHOOSE i \in nz : \A j \in nz : i <= j, Len(ds))

\* sys.int_max_str_digits: int() refuses a decimal literal of more digits
int_max_str_digits == 4300

\* -v for v >= 0 in two limbs
Negated(v) == IF v.lo = 0 THEN PyBig(-v.hi, 0) ELSE PyBig(-v.hi - 1, Limb - v.lo)

\* the white space int() skips around a literal: that of str.strip() but for the
\* ASCII separators 28-31
IsIntSpace(c) == c \in SpaceChars \ {28, 29, 30, 31}

RECURSIVE int_lstrip(_)
int_lstrip(s) == IF s # <<>> /\ IsIntSpace(Head(s)) THEN int_lstrip(Tail(s)) ELSE s

RECURSIVE int_rstrip(_)
int_rstrip(s) ==
    IF s # <<>> /\ IsIntSpace(s[Len(s)]) THEN int_rstrip(SubSeq(s, 1, Len(s) - 1)) ELSE s

\* whether ds is digits with single underscores between them
IsDigitRun(ds) ==
    /\ ds # <<>>
    /\ IsDigit(ds[1]) /\ IsDigit(ds[Len(ds)])
    /\ \A i \in 1..Len(ds) : IsDigit(ds[i]) \/ (ds[i] = 95 /\ ds[i - 1] # 95)

NotUnderscore(c) == c # 95

\* int(s) of a str: white space, an optional sign, digits; the digits are
\* counted without the underscores, leading zeros included
IntOfStr(s) ==
    LET d == int_rstrip(int_lstrip(s))
        signed == d # <<>> /\ d[1] \in {43, 45}
        ds == IF signed THEN Tail(d) ELSE d
        digits == SelectSeq(ds, NotUnderscore)
        v == DigitsVal(Significant(digits))
    IN  IF ~IsDigitRun(ds) \/ Len(digits) > int_max_str_digits
        THEN [ok |-> FALSE, v |-> PyNone]
        ELSE IF signed /\ d[1] = 45 THEN [ok |-> TRUE, v |-> Negated(v)]
        ELSE [ok |-> TRUE, v |-> PyBig(v.hi, v.lo)]

\* int(x): the outcome is [ok, v]; ok is FALSE where Python raises
\* (TypeError for None, ValueError for a string that is no decimal literal)
PyIntOf(x) ==
    CASE x.t = "int" -> [ok |-> TRUE, v |-> x]
      [] x.t = "float" -> [ok |-> TRUE, v |-> PyInt(TruncTenths(Small(x)))]
      [] x.t = "str" -> IntOfStr(x.s)
      [] OTHER -> [ok |-> FALSE, v |-> PyNone]

\* s[0:n]
Slice0(s, n) ==
    IF n >= 0 THEN SubSeq(s, 1, IF n < Len(s) THEN n ELSE Len(s))
    ELSE SubSeq(s, 1, IF Len(s) + n > 0 THEN Len(s) + n ELSE 0)

\* all sequences over S of length at most n
SeqsUpTo(S, n) == UNION {[1..k -> S] : k \in 0..n}

(***************************************************************************)
(* segments_length_limit (lines 61-74).  A segment is a break marker or a  *)
(* text run; both carry the same fields so that lists compare.             *)
(***************************************************************************)
SSMLBreak(ms) == [kind |-> "break", text |-> <<>>, ms |-> ms]

SSMLSegment(text) == [kind |-> "text", text |-> text, ms |-> 0]

\* the loop of lines 66-73 from segment i on, with total_len and ret_segments
\* as they stand before segment i
RECURSIVE limit_loop(_, _, _, _, _)
limit_loop(segments, i, total_len, ret_segments, total_max) ==
    IF i > Len(segments) THEN ret_segments
    ELSE LET seg == segments[i]
         IN  IF seg.kind = "break"
             THEN limit_loop(segments, i + 1, total_len, Append(ret_segments, seg), total_max)
             ELSE IF total_len + Len(seg.text) > total_max
                  THEN ret_segments
                  ELSE limit_loop(segments, i + 1, total_len + Len(seg.text),
                                  Append(ret_segments, seg), total_max)

\* a variant that skips a text run over the budget (continue for break)
RECURSIVE limit_loop_skip(_, _, _, _, _)
limit_loop_skip(segments, i, total_len, ret_segments, total_max) ==
    IF i > Len(segments) THEN ret_segments
    ELSE LET seg == segments[i]
         IN  IF seg.kind = "break"
             THEN limit_loop_skip(segments, i + 1, total_len, Append(ret_segments, seg), total_max)
             ELSE IF total_len + Len(seg.text) > total_max
                  THEN limit_loop_skip(segments, i + 1, total_len, ret_segments, total_max)
                  ELSE limit_loop_skip(segments, i + 1, total_len + Len(seg.text),
                                       Append(ret_segments, seg), total_max)

segments_length_limit_skip(segments, total_max) == limit_loop_skip(segments, 1, 0, <<>>, total_max)

\* a variant that appends the segment before it tests the budget
RECURSIVE limit_loop_late(_, _, _, _, _)
limit_loop_late(segments, i, total_len, ret_segments, total_max) ==
    IF i > Len(segments) THEN ret_segments
    ELSE LET seg == segments[i]
         IN  IF seg.kind = "break"
             THEN limit_loop_late(segments, i + 1, total_len, Append(ret_segments, seg), total_max)
             ELSE IF total_len + Len(seg.text) > total_max
                  THEN Append(ret_segments, seg)
                  ELSE limit_loop_late(segments, i + 1, total_len + Len(seg.text),
                                       Append(ret_segments, seg), total_max)

segments_length_limit_late(segments, total_max) == limit_loop_late(segments, 1, 0, <<>>, total_max)

\* lines 64-74: ret_segments = [], total_len = 0, the loop, return ret_segments
segments_length_limit(segments, total_max) == limit_loop(segments, 1, 0, <<>>, total_max)

(***************************************************************************)
(* What a handler returns, and the audio values it passes on.  Audio is    *)
(* kept as the chain of the calls that produced it, oldest first.          *)
(***************************************************************************)
ReturnNone == [kind |-> "None"]

ReturnTuple(sr, audio_data) == [kind |-> "tuple", sr |-> sr, audio |-> audio_data]

ReturnStr(chars) == [kind |-> "str", s |-> chars]

ReturnRows(data) == [kind |-> "rows", data |-> data]

Raise(exc) == [kind |-> "raise", exc |-> exc]

\* sample rates a synthesiser or the enhancer may report
SampleRates == {24000, 44100}

\* audio.audio_to_int16(audio_data)
audio_to_int16(audio_data) == Append(audio_data, "audio_to_int16")

\* the audio that _apply_audio_enhance returns for audio_data
enhanced(audio_data) == Append(audio_data, "apply_audio_enhance")

(***************************************************************************)
(* load_spk_info (lines 45-58).  e.from_file and e.to_json say whether     *)
(* Speaker.from_file and Speaker.to_json return or raise; e.infos is the   *)
(* object to_json returns ("no_attr": it lacks one of the three fields).   *)
(***************************************************************************)
\* "empty"
Empty == <<101, 109, 112, 116, 121>>

\* "load failed"
LoadFailed == <<108, 111, 97, 100, 32, 102, 97, 105, 108, 101, 100>>

\* "- name: "
NameLabel == <<45, 32, 110, 97, 109, 101, 58, 32>>

\* "- gender: "
GenderLabel == <<45, 32, 103, 101, 110, 100, 101, 114, 58, 32>>

\* "- describe: "
DescribeLabel == <<45, 32, 100, 101, 115, 99, 114, 105, 98, 101, 58, 32>>

\* the f-string of lines 52-56, before .strip()
spk_info_template(infos) ==
    <<10>> \o NameLabel \o infos.name \o <<10>>
             \o GenderLabel \o infos.gender \o <<10>>
             \o DescribeLabel \o infos.describe \o <<10, 32, 32, 32, 32>>

\* a variant whose try block covers Speaker.from_file only
load_spk_info_narrow(file, e) ==
    IF file.t = "None" THEN ReturnStr(Empty)
    ELSE IF e.from_file = "raise" THEN ReturnStr(LoadFailed)
         ELSE IF e.to_json # "ok" THEN Raise(e.to_json)
         ELSE ReturnStr(strip(spk_info_template(e.infos)))

load_spk_info(file, e) ==
    IF file.t = "None" THEN ReturnStr(Empty)
    ELSE IF e.from_file = "raise" \/ e.to_json # "ok" THEN ReturnStr(LoadFailed)
         ELSE ReturnStr(strip(spk_info_template(e.infos)))

\* the collaborator calls load_spk_info makes, in order
load_spk_info_calls(file, e) ==
    IF file.t = "None" THEN <<>>
    ELSE IF e.from_file = "raise" THEN <<[fn |-> "Speaker.from_file"]>>
         ELSE <<[fn |-> "Speaker.from_file"], [fn |-> "Speaker.to_json"]>>

(***************************************************************************)
(* tts_generate (lines 134-211).                                           *)
(***************************************************************************)
\* the Speaker object Speaker.from_file returns for a file
SpeakerOf(file) == [t |-> "Speaker", hi |-> 0, lo |-> 0, s |-> file.s]

\* batch_size=4 in the signature (line 147)
tts_default_batch_size == 4
\* batch_size = 4 in the except branch (line 158)
tts_fallback_batch_size == 4

\* lines 147 and 155-158: the signature's default for an omitted argument, then int()
tts_batch_size(batch_size) ==
    LET r == PyIntOf(Bind(batch_size, PyInt(tts_default_batch_size)))
    IN  IF r.ok THEN r.v ELSE PyInt(tts_fallback_batch_size)

\* a variant that strips but does not cut
tts_text_uncut(text, max_len) == strip(text)

\* a variant that cuts but does not strip
tts_text_unstripped(text, max_len) == Slice0(text, max_len)

\* lines 160-161: text.strip()[0:max_len]
tts_text(text, max_len) == Slice0(strip(text), max_len)

\* "*auto"
Auto == <<42, 97, 117, 116, 111>>

\* lines 166-167
tts_style(style) == IF style = PyStr(Auto) THEN PyNone ELSE style

\* lines 169-170
tts_top_k(top_k) == IF top_k.t = "float" THEN PyIntOf(top_k).v ELSE top_k

\* the bounds of np.clip in line 181: -1 and 2**32 - 1
SeedMin == PyInt(-1)

SeedMax == PyBig(Limb - 1, Limb - 1)

\* np.clip accepts a number only; anything else raises TypeError
IsNumber(x) == x.t \in {"int", "float"}

\* a variant that clamps below at 0 and not above
clip_seed_low(infer_seed) ==
    LET v == PyIntOf(infer_seed).v
    IN  IF IntLess(v, PyInt(0)) THEN PyInt(0) ELSE v

\* lines 181-182: int(np.clip(infer_seed, -1, 2**32 - 1, dtype=np.float64)) of a number
clip_seed(infer_seed) ==
    IF infer_seed.t = "float" /\ Small(infer_seed) < -10 THEN SeedMin
    ELSE LET v == PyIntOf(infer_seed).v
         IN  IF IntLess(v, SeedMin) THEN SeedMin
             ELSE IF IntLess(SeedMax, v) THEN SeedMax
             ELSE v

\* a variant in which the style's values win over the user's
tts_voice_style_first(a, params) ==
    [spk |-> DictGet(params, "spk", a.spk),
     infer_seed |-> DictGet(params, "seed", a.infer_seed),
     temperature |-> DictGet(params, "temperature", a.temperature),
     prefix |-> DictGet(params, "prefix", a.prefix),
     prompt1 |-> DictGet(params, "prompt1", a.prompt1),
     prompt2 |-> DictGet(params, "prompt2", a.prompt2)]

\* lines 173-179: the speaker and the voice parameters after the style's values
\* (params, what calc_spk_style returned) are merged in
tts_voice(a, params) ==
    [spk |-> DictGet(params, "spk", a.spk),
     infer_seed |-> PyOr(a.infer_seed, DictGet(params, "seed", a.infer_seed)),
     temperature |-> PyOr(a.temperature, DictGet(params, "temperature", a.temperature)),
     prefix |-> PyOr(a.prefix, DictGet(params, "prefix", a.prefix)),
     prompt1 |-> PyOr(a.prompt1, DictGet(params, "prompt1", PyStr(<<>>))),
     prompt2 |-> PyOr(a.prompt2, DictGet(params, "prompt2", PyStr(<<>>)))]

\* lines 184-185: e.norm is what text_normalize returns for text
tts_normalize(text, disable_normalize, e) == IF ~disable_normalize THEN e.norm ELSE text

\* the keyword arguments of the synthesize_audio call, lines 190-204
tts_synthesize_call(a, text, v, top_k, spk, infer_seed, batch_size) ==
    [fn |-> "synthesize_audio", text |-> text, temperature |-> v.temperature,
     top_P |-> a.top_p, top_K |-> top_k, spk |-> spk, infer_seed |-> infer_seed,
     use_decoder |-> a.use_decoder, prompt1 |-> v.prompt1, prompt2 |-> v.prompt2,
     prefix |-> v.prefix, batch_size |-> batch_size, end_of_sentence |-> a.eos,
     spliter_threshold |-> a.spliter_thr]

\* a variant that converts to int16 only when the enhancer had something to do
tts_finish_unconverted(before, synth, a, e) ==
    LET audio_data == <<"synthesize_audio">>
        enh == [fn |-> "apply_audio_enhance", audio |-> audio_data, sr |-> e.synth_sr,
                enable_denoise |-> a.enable_denoise, enable_enhance |-> a.enable_enhance]
        conv == [fn |-> "audio_to_int16", audio |-> enhanced(audio_data)]
    IN  IF a.enable_denoise \/ a.enable_enhance
        THEN [calls |-> before \o <<synth, enh, conv>>,
              result |-> ReturnTuple(e.enh_sr, audio_to_int16(enhanced(audio_data)))]
        ELSE [calls |-> before \o <<synth, enh>>,
              result |-> ReturnTuple(e.enh_sr, enhanced(audio_data))]

\* lines 190-211: synthesis, enhancement, int16 conversion and the return value, after
\* the calls made so far; e.synth_sr is the rate synthesize_audio returns, e.enh_sr the
\* rate the enhancer returns
tts_finish(before, synth, a, e) ==
    LET audio_data == <<"synthesize_audio">>
        enh == [fn |-> "apply_audio_enhance", audio |-> audio_data, sr |-> e.synth_sr,
                enable_denoise |-> a.enable_denoise, enable_enhance |-> a.enable_enhance]
        conv == [fn |-> "audio_to_int16", audio |-> enhanced(audio_data)]
    IN  [calls |-> before \o <<synth, enh, conv>>,
         result |-> ReturnTuple(e.enh_sr, audio_to_int16(enhanced(audio_data)))]

tts_generate(a, e) ==
    LET batch_size == tts_batch_size(a.batch_size)
        text == tts_text(a.text, e.tts_max)
    IN  IF text = <<>> THEN [calls |-> <<>>, result |-> ReturnNone]
        ELSE
        LET style == tts_style(a.style)
            top_k == tts_top_k(a.top_k)
            c_style == [fn |-> "calc_spk_style", spk |-> a.spk, style |-> style]
            v == tts_voice(a, e.params)
        IN  IF ~IsNumber(v.infer_seed)
            THEN [calls |-> <<c_style>>, result |-> Raise("TypeError")]
            ELSE
            LET infer_seed == clip_seed(v.infer_seed)
                ntext == tts_normalize(text, a.disable_normalize, e)
                c_norm == IF ~a.disable_normalize
                          THEN <<[fn |-> "text_normalize", text |-> text]>> ELSE <<>>
                c_file == IF Truthy(a.spk_file)
                          THEN <<[fn |-> "Speaker.from_file", file |-> a.spk_file]>> ELSE <<>>
                spk == IF Truthy(a.spk_file) THEN SpeakerOf(a.spk_file) ELSE v.spk
                before == <<c_style>> \o c_norm \o c_file
            IN  IF Truthy(a.spk_file) /\ e.from_file = "raise"
                THEN [calls |-> before, result |-> Raise("from_file")]
                ELSE tts_finish(before,
                                tts_synthesize_call(a, ntext, v, top_k, spk, infer_seed, batch_size),
                                a, e)

(***************************************************************************)
(* synthesize_ssml (lines 85-129).                                         *)
(***************************************************************************)
\* batch_size=4 in the signature (line 87)
ssml_default_batch_size == 4
\* batch_size = 8 in the except branch (line 97)
ssml_fallback_batch_size == 8

\* lines 87 and 94-97: the signature's default for an omitted argument, then int()
ssml_batch_size(batch_size) ==
    LET r == PyIntOf(Bind(batch_size, PyInt(ssml_default_batch_size)))
    IN  IF r.ok THEN r.v ELSE PyInt(ssml_fallback_batch_size)

\* lines 112-129: synthesis, enhancement, int16 conversion and the return value;
\* e.frame_rate is combined_audio.frame_rate, e.enh_sr the rate the enhancer returns
ssml_finish(before, segments, batch_size, a, e) ==
    LET ctor == [fn |-> "SynthesizeSegments", batch_size |-> batch_size, eos |-> a.eos,
                 spliter_thr |-> a.spliter_thr]
        synth == [fn |-> "synthesize_segments", segments |-> segments]
        comb == [fn |-> "combine_audio_segments"]
        wav == <<"synthesize_segments", "combine_audio_segments", "audiosegment_to_librosawav">>
        enh == [fn |-> "apply_audio_enhance", audio |-> wav, sr |-> e.frame_rate,
                enable_denoise |-> a.enable_denoise, enable_enhance |-> a.enable_enhance]
        conv == [fn |-> "audio_to_int16", audio |-> enhanced(wav)]
    IN  [calls |-> before \o <<ctor, synth, comb, enh, conv>>,
         result |-> ReturnTuple(e.enh_sr, audio_to_int16(enhanced(wav)))]

synthesize_ssml(a, e) ==
    LET batch_size == ssml_batch_size(a.batch_size)
        ssml == strip(a.ssml)
    IN  IF ssml = <<>> THEN [calls |-> <<>>, result |-> ReturnNone]
        ELSE
        LET c_parse == [fn |-> "parser.parse", ssml |-> ssml]
            segments == segments_length_limit(e.parsed, e.ssml_max)
        IN  IF Len(segments) = 0 THEN [calls |-> <<c_parse>>, result |-> ReturnNone]
            ELSE ssml_finish(<<c_parse>>, segments, batch_size, a, e)

(***************************************************************************)
(* split_long_text (lines 227-234).  e.sentences is what the splitter      *)
(* returns, e.normalized[i] what text_normalize returns for sentence i.    *)
(***************************************************************************)
\* a variant that numbers the rows from 1
split_row_from_one(i, text) == <<i + 1, text, Len(text)>>

\* line 233: the row of sentence number i (from 0) with normalised text
split_row(i, text) == <<i, text, Len(text)>>

split_long_text(long_text_input, e) ==
    ReturnRows([k \in 1..Len(e.normalized) |-> split_row(k - 1, e.normalized[k])])

split_long_text_calls(long_text_input, e) ==
    <<[fn |-> "SentenceSplitter.parse", text |-> long_text_input]>>
    \o [k \in 1..Len(e.sentences) |-> [fn |-> "text_normalize", text |-> e.sentences[k]]]

(***************************************************************************)
(* The inputs of the handlers and the answers of their collaborators.      *)
(* Configured length limits are natural numbers.                           *)
(***************************************************************************)
\* a blank, a carriage return and the letter a
Chars == {32, 13, 97}

Texts == SeqsUpTo(Chars, MaxTextLen)

Limits == 0..MaxLimit

\* text_normalize is a collaborator outside this file: it may return any text, here
\* one that is shorter than its input, as long, or one character longer
text_normalize_results(text) == SeqsUpTo({97}, Len(text) + 1)

SegTexts == SeqsUpTo({97}, MaxSegLen)

Segments == {SSMLBreak(250), SSMLBreak(500)} \cup {SSMLSegment(t) : t \in SegTexts}

\* what parser.parse may return
SegLists == SeqsUpTo(Segments, MaxSegs)

\* "[uv_break]"
UvBreak == <<91, 117, 118, 95, 98, 114, 101, 97, 107, 93>>

\* omitted, None, 2, 8, 2.5, "16", " 3", "a", "", "-3", "+5", "1_6", "1__6",
\* an Arabic-Indic 3, and "3" after the separator 28, which strip() removes and int() rejects
BatchSizes ==
    {Omitted, PyNone, PyInt(2), PyInt(8), PyFloat(25), PyStr(<<49, 54>>),
     PyStr(<<32, 51>>), PyStr(<<97>>), PyStr(<<>>), PyStr(<<45, 51>>), PyStr(<<43, 53>>),
     PyStr(<<49, 95, 54>>), PyStr(<<49, 95, 95, 54>>), PyStr(<<1635>>), PyStr(<<28, 51>>)}

\* batch sizes written with as many digits as int() reads, and with one more
LongBatchSizes ==
    {PyStr([i \in 1..n |-> IF i = n THEN 50 ELSE 48]) :
        n \in {int_max_str_digits, int_max_str_digits + 1}}

\* user-supplied seeds: none, below, inside and above the range -1 .. 2**32 - 1
Seeds ==
    {PyNone, PyStr(<<>>), PyInt(-5), PyInt(-1), PyInt(0), PyInt(1), PyInt(42),
     PyBig(Limb - 1, Limb - 2), PyBig(Limb - 1, Limb - 1), PyBig(Limb, 0), PyBig(Limb, 3),
     PyFloat(0), PyFloat(25), PyFloat(-5), PyFloat(-15)}

\* the values a style or speaker may set, by key of the dict calc_spk_style returns
ParamValues(k) ==
    CASE k = "seed" -> {PyInt(7), PyInt(-7), PyBig(Limb, 9)}
      [] k = "temperature" -> {PyFloat(7)}
      [] k = "prefix" -> {PyStr(<<113>>)}
      [] k = "prompt1" -> {PyStr(<<114>>)}
      [] k = "prompt2" -> {PyStr(<<115>>)}
      [] k = "spk" -> {PyInt(3)}

ParamKeys == {"seed", "temperature", "prefix", "prompt1", "prompt2", "spk"}

\* the dict that holds the keys whose choice is a value, not Omitted
DictOf(choice) == [k \in {j \in ParamKeys : choice[j].t # "omitted"} |-> choice[k]]

MaybeParam(k) == ParamValues(k) \cup {Omitted}

\* what calc_spk_style may return: a dict with any of the keys
ParamDicts ==
    {DictOf([seed |-> sd, temperature |-> tm, prefix |-> pf, prompt1 |-> p1,
             prompt2 |-> p2, spk |-> sp]) :
     sd \in MaybeParam("seed"), tm \in MaybeParam("temperature"),
     pf \in MaybeParam("prefix"), p1 \in MaybeParam("prompt1"),
     p2 \in MaybeParam("prompt2"), sp \in MaybeParam("spk")}

NoParams == [k \in {} |-> PyNone]

TtsDefaults ==
    [text |-> <<97>>, temperature |-> PyFloat(3), top_p |-> PyFloat(7), top_k |-> PyInt(20),
     spk |-> PyInt(-1), infer_seed |-> PyInt(-1), use_decoder |-> TRUE,
     prompt1 |-> PyStr(<<>>), prompt2 |-> PyStr(<<>>), prefix |-> PyStr(<<>>),
     style |-> PyStr(<<>>), disable_normalize |-> FALSE, batch_size |-> Omitted,
     enable_enhance |-> FALSE, enable_denoise |-> FALSE, spk_file |-> PyNone,
     spliter_thr |-> PyInt(100), eos |-> PyStr(UvBreak)]

TtsEnvDefault ==
    [tts_max |-> MaxLimit, params |-> NoParams, norm |-> <<97>>, from_file |-> "ok",
     synth_sr |-> 24000, enh_sr |-> 24000]

\* what the user may enter for temperature, prefix, prompt1 and prompt2
VoiceInputs ==
    {PyFloat(3), PyFloat(0), PyNone} \X {PyStr(<<>>), PyStr(<<112>>)}
    \X {PyStr(<<>>), PyStr(<<120>>)} \X {PyStr(<<>>), PyStr(<<121>>)}

\* the enhancer switches, top_k and style
RunInputs == BOOLEAN \X BOOLEAN \X {PyInt(20), PyFloat(205)} \X {PyStr(<<>>), PyStr(Auto)}

\* a speaker file (or none) and whether Speaker.from_file returns
FileInputs == {<<PyNone, "ok">>, <<PyStr(<<102>>), "ok">>, <<PyStr(<<102>>), "raise">>}

SsmlDefaults ==
    [ssml |-> <<97>>, batch_size |-> Omitted, enable_enhance |-> FALSE,
     enable_denoise |-> FALSE, eos |-> PyStr(UvBreak), spliter_thr |-> PyInt(100)]

SsmlEnvDefault ==
    [ssml_max |-> MaxLimit, parsed |-> <<SSMLSegment(<<97>>)>>, frame_rate |-> 24000,
     enh_sr |-> 24000]

SpkFiles == {PyNone, PyStr(<<102>>)}

SpkInfos ==
    [name : {<<>>, <<110>>}, gender : {<<42>>, <<102>>}, describe : SeqsUpTo({32, 13, 100}, 2)]

SpkEnvs == [from_file : {"ok", "raise"}, to_json : {"ok", "raise", "no_attr"}, infos : SpkInfos]

Sentences == SeqsUpTo({97}, MaxSegLen) \ {<<>>}

\* what the splitter and the normaliser may answer in split_long_text
SplitEnvs ==
    UNION {{[sentences |-> ss, normalized |-> nn] :
            nn \in {f \in [1..Len(ss) -> SeqsUpTo({97}, MaxSegLen + 1)] :
                    \A k \in 1..Len(ss) : f[k] \in text_normalize_results(ss[k])}} :
           ss \in SeqsUpTo(Sentences, MaxSentences)}

(***************************************************************************)
(* The state machine: the UI calls one handler, which runs to completion,  *)
(* and takes its result.                                                   *)
(***************************************************************************)
Idle == [kind |-> "idle"]

Init ==
    /\ op = "idle"
    /\ args = Idle
    /\ env = Idle
    /\ calls = <<>>
    /\ result = Idle

LoadSpkInfo ==
    /\ op = "idle"
    /\ \E file \in SpkFiles, e \in SpkEnvs :
         /\ op' = "load_spk_info"
         /\ args' = [file |-> file]
         /\ env' = e
         /\ calls' = load_spk_info_calls(file, e)
         /\ result' = load_spk_info(file, e)

SegmentsLengthLimit ==
    /\ op = "idle"
    /\ \E segments \in SegLists, total_max \in Limits :
         /\ op' = "segments_length_limit"
         /\ args' = [segments |-> segments, total_max |-> total_max]
         /\ env' = Idle
         /\ calls' = <<>>
         /\ result' = [kind |-> "list", segments |-> segments_length_limit(segments, total_max)]

SsmlCall(a, e) ==
    LET r == synthesize_ssml(a, e)
    IN  /\ op' = "synthesize_ssml"
        /\ args' = a
        /\ env' = e
        /\ calls' = r.calls
        /\ result' = r.result

\* one handler; its calls vary the SSML string, or the parsed segments and the limit,
\* or the batch size, the enhancer switches and the rates
SynthesizeSsml ==
    /\ op = "idle"
    /\ \/ \E t \in Texts, g \in {<<>>, SsmlEnvDefault.parsed} :
            SsmlCall([SsmlDefaults EXCEPT !.ssml = t], [SsmlEnvDefault EXCEPT !.parsed = g])
       \/ \E g \in SegLists, m \in Limits :
            SsmlCall(SsmlDefaults, [SsmlEnvDefault EXCEPT !.parsed = g, !.ssml_max = m])
       \/ \E b \in BatchSizes, w \in BOOLEAN \X BOOLEAN, r \in SampleRates \X SampleRates :
            SsmlCall([SsmlDefaults EXCEPT !.batch_size = b, !.enable_enhance = w[1],
                                          !.enable_denoise = w[2]],
                     [SsmlEnvDefault EXCEPT !.frame_rate = r[1], !.enh_sr = r[2]])
       \/ \E b \in LongBatchSizes :
            SsmlCall([SsmlDefaults EXCEPT !.batch_size = b], SsmlEnvDefault)

TtsCall(a, e) ==
    LET r == tts_generate(a, e)
    IN  /\ op' = "tts_generate"
        /\ args' = a
        /\ env' = e
        /\ calls' = r.calls
        /\ result' = r.result

\* one handler; its calls vary the text, the limit and the normalisation, or the voice
\* parameters and what the style sets, or the batch size, the enhancer switches, the
\* speaker file and the rates
TtsGenerate ==
    /\ op = "idle"
    /\ \/ \E t \in Texts, m \in Limits, d \in BOOLEAN :
            \E n \in IF d THEN {<<>>} ELSE text_normalize_results(tts_text(t, m)) :
              TtsCall([TtsDefaults EXCEPT !.text = t, !.disable_normalize = d],
                      [TtsEnvDefault EXCEPT !.tts_max = m, !.norm = n])
       \/ \E sd \in Seeds, p \in ParamDicts, u \in VoiceInputs :
            TtsCall([TtsDefaults EXCEPT !.infer_seed = sd, !.temperature = u[1],
                                        !.prefix = u[2], !.prompt1 = u[3], !.prompt2 = u[4]],
                    [TtsEnvDefault EXCEPT !.params = p])
       \/ \E b \in BatchSizes, w \in RunInputs, f \in FileInputs,
             r \in SampleRates \X SampleRates :
            TtsCall([TtsDefaults EXCEPT !.batch_size = b, !.enable_enhance = w[1],
                                        !.enable_denoise = w[2], !.spk_file = f[1],
                                        !.top_k = w[3], !.style = w[4]],
                    [TtsEnvDefault EXCEPT !.from_file = f[2], !.synth_sr = r[1],
                                          !.enh_sr = r[2]])
       \/ \E b \in LongBatchSizes :
            TtsCall([TtsDefaults EXCEPT !.batch_size = b], TtsEnvDefault)

SplitLongText ==
    /\ op = "idle"
    /\ \E long_text_input \in SeqsUpTo({97}, MaxTextLen), e \in SplitEnvs :
         /\ op' = "split_long_text"
         /\ args' = [long_text_input |-> long_text_input]
         /\ env' = e
         /\ calls' = split_long_text_calls(long_text_input, e)
         /\ result' = split_long_text(long_text_input, e)

\* the UI takes the result; the next request starts from scratch
Return ==
    /\ op # "idle"
    /\ op' = "idle"
    /\ args' = Idle
    /\ env' = Idle
    /\ calls' = <<>>
    /\ result' = Idle

Next ==
    \/ LoadSpkInfo
    \/ SegmentsLengthLimit
    \/ SynthesizeSsml
    \/ TtsGenerate
    \/ SplitLongText
    \/ Return

Spec == Init /\ [][Next]_vars

(***************************************************************************)
(* Properties.                                                             *)
(***************************************************************************)
\* the positions of the calls to fn in the call log
CallsTo(fn) == {i \in DOMAIN calls : calls[i].fn = fn}

\* the call to fn, where there is exactly one
TheCall(fn) == calls[CHOOSE i \in CallsTo(fn) : TRUE]

\* the names of the calls made, in order
CallNames == [i \in DOMAIN calls |-> calls[i].fn]

\* the summed length of the text runs among the first n segments
RECURSIVE TextLen(_, _)
TextLen(segments, n) ==
    IF n = 0 THEN 0
    ELSE TextLen(segments, n - 1)
         + (IF segments[n].kind = "text" THEN Len(segments[n].text) ELSE 0)

\* the first text run that takes the summed text length over total_max, or
\* Len(segments) + 1 when none does
FirstOver(segments, total_max) ==
    LET over == {i \in 1..Len(segments) :
                   segments[i].kind = "text" /\ TextLen(segments, i) > total_max}
    IN  IF over = {} THEN Len(segments) + 1
        ELSE CHOOSE i \in over : \A j \in over : i <= j

\* C1: the text runs that segments_length_limit returns sum to at most total_max, for
\* a direct call and for the segments synthesize_ssml hands to the synthesiser
C1_TextWithinLimit ==
    /\ op = "segments_length_limit" =>
         TextLen(result.segments, Len(result.segments)) <= args.total_max
    /\ (op = "synthesize_ssml" /\ CallsTo("synthesize_segments") # {}) =>
         LET g == TheCall("synthesize_segments").segments
         IN  TextLen(g, Len(g)) <= env.ssml_max

\* a call that dropped segments and kept a non-empty text run
C1_Witness ==
    /\ op = "segments_length_limit"
    /\ Len(result.segments) < Len(args.segments)
    /\ \E i \in 1..Len(result.segments) :
         result.segments[i].kind = "text" /\ Len(result.segments[i].text) > 0

\* C2 as stated: the text handed to synthesize_audio has at most tts_max characters,
\* with and without normalisation
C2_SynthTextWithinMax ==
    (op = "tts_generate" /\ CallsTo("synthesize_audio") # {}) =>
      Len(TheCall("synthesize_audio").text) <= env.tts_max

\* C2 amended: the text is cut to tts_max characters before normalisation: the text
\* handed to text_normalize is the stripped input cut to tts_max characters, and with
\* normalisation disabled that same text is handed to synthesize_audio
C2_TruncatedBeforeNormalize ==
    op = "tts_generate" =>
      /\ \A i \in CallsTo("text_normalize") :
           /\ Len(calls[i].text) <= env.tts_max
           /\ calls[i].text = Slice0(strip(args.text), env.tts_max)
      /\ (args.disable_normalize /\ CallsTo("synthesize_audio") # {}) =>
           /\ Len(TheCall("synthesize_audio").text) <= env.tts_max
           /\ TheCall("synthesize_audio").text = Slice0(strip(args.text), env.tts_max)

\* a call without normalisation whose stripped text was longer than tts_max
C2_Witness ==
    /\ op = "tts_generate"
    /\ args.disable_normalize
    /\ Len(strip(args.text)) > env.tts_max
    /\ CallsTo("synthesize_audio") # {}
    /\ Len(TheCall("synthesize_audio").text) = env.tts_max

\* C3: the infer_seed handed to synthesize_audio is an int in -1 .. 2**32 - 1; a
\* numeric seed of the user below -1 arrives as -1, one above 2**32 - 1 as 2**32 - 1
C3_SeedClamped ==
    (op = "tts_generate" /\ CallsTo("synthesize_audio") # {}) =>
      LET seed == TheCall("synthesize_audio").infer_seed
          u == args.infer_seed
      IN  /\ seed.t = "int"
          /\ seed.lo \in 0..(Limb - 1)
          /\ ~IntLess(seed, PyInt(-1))
          /\ ~IntLess(PyBig(Limb - 1, Limb - 1), seed)
          /\ (u.t = "int" /\ IntLess(u, PyInt(-1))) => seed = PyInt(-1)
          /\ (u.t = "float" /\ Small(u) < -10) => seed = PyInt(-1)
          /\ (u.t = "int" /\ IntLess(PyBig(Limb - 1, Limb - 1), u)) =>
               seed = PyBig(Limb - 1, Limb - 1)

\* a seed above 2**32 - 1 that arrived as 2**32 - 1
C3_Witness ==
    /\ op = "tts_generate"
    /\ args.infer_seed = PyBig(Limb, 3)
    /\ CallsTo("synthesize_audio") # {}
    /\ TheCall("synthesize_audio").infer_seed = PyBig(Limb - 1, Limb - 1)

\* whether int(batch_size) raises for the value the user gave
Unconvertible(batch_size) == batch_size.t # "omitted" /\ ~PyIntOf(batch_size).ok

\* C4: in both handlers a batch_size that int() rejects raises nothing and is replaced
\* by the value used when the argument is omitted, with which processing continues
C4_FallbackIsDefault ==
    /\ (op = "tts_generate" /\ Unconvertible(args.batch_size)) =>
         /\ result.kind # "raise"
         /\ CallsTo("synthesize_audio") # {} =>
              TheCall("synthesize_audio").batch_size = PyInt(tts_default_batch_size)
    /\ (op = "synthesize_ssml" /\ Unconvertible(args.batch_size)) =>
         /\ result.kind # "raise"
         /\ CallsTo("SynthesizeSegments") # {} =>
              TheCall("SynthesizeSegments").batch_size = PyInt(ssml_default_batch_size)

\* whether segments_length_limit leaves nothing of the parsed segments
NothingLeft(parsed, max_len) ==
    parsed = <<>> \/ (parsed[1].kind = "text" /\ Len(parsed[1].text) > max_len)

\* C5: tts_generate returns None and calls no collaborator when the stripped and cut
\* text is empty; synthesize_ssml returns None without synthesis or enhancement when
\* the stripped SSML is empty or no segment is left after the length cap
C5_EmptyShortCircuits ==
    /\ (op = "tts_generate" /\ Slice0(strip(args.text), env.tts_max) = <<>>) =>
         result.kind = "None" /\ calls = <<>>
    /\ (op = "synthesize_ssml" /\ strip(args.ssml) = <<>>) =>
         result.kind = "None" /\ calls = <<>>
    /\ (op = "synthesize_ssml" /\ strip(args.ssml) # <<>>
          /\ NothingLeft(env.parsed, env.ssml_max)) =>
         result.kind = "None" /\ CallNames = <<"parser.parse">>

\* a text of blanks only, or one cut to nothing, that returned None
C5_Witness ==
    /\ op = "tts_generate"
    /\ args.text # <<>>
    /\ result.kind = "None"

\* C6: load_spk_info raises nothing; it returns "empty" for no file, "load failed"
\* when loading, serialising or reading a field fails, and otherwise the three lines
\* with the speaker's name, gender and describe
C6_LoadSpkInfo ==
    op = "load_spk_info" =>
      /\ result.kind = "str"
      /\ args.file.t = "None" => result.s = Empty
      /\ (args.file.t # "None" /\ (env.from_file = "raise" \/ env.to_json # "ok")) =>
           result.s = LoadFailed
      /\ (args.file.t # "None" /\ env.from_file = "ok" /\ env.to_json = "ok") =>
           result.s = NameLabel \o env.infos.name \o <<10>>
                      \o GenderLabel \o env.infos.gender \o <<10>>
                      \o rstrip(DescribeLabel \o env.infos.describe)

\* a file that loaded, with a description
C6_Witness ==
    /\ op = "load_spk_info"
    /\ args.file.t # "None"
    /\ env.from_file = "ok" /\ env.to_json = "ok"
    /\ env.infos.describe = <<100, 100>>
    /\ result.s # LoadFailed

\* C7: split_long_text returns one row per sentence of the splitter, in its order;
\* row i (from 0) is [i, t, len(t)] with t what text_normalize returned for sentence i
C7_SplitRows ==
    op = "split_long_text" =>
      /\ result.kind = "rows"
      /\ Len(result.data) = Len(env.sentences)
      /\ \A k \in 1..Len(env.sentences) :
           /\ result.data[k][1] = k - 1
           /\ result.data[k][2] = env.normalized[k]
           /\ result.data[k][3] = Len(result.data[k][2])
           /\ calls[k + 1].fn = "text_normalize" /\ calls[k + 1].text = env.sentences[k]

\* two sentences, the first of which the normaliser made longer
C7_Witness ==
    /\ op = "split_long_text"
    /\ Len(env.sentences) = 2
    /\ Len(env.normalized[1]) > Len(env.sentences[1])
    /\ Len(result.data) = 2

\* the calls tts_generate makes before synthesis
TtsValidation == {"calc_spk_style", "text_normalize", "Speaker.from_file"}

\* whether the call log is a run of calls from `validation` followed by `steps`
EndsWith(validation, steps) ==
    LET n == Len(calls) - Len(steps)
    IN  /\ n >= 0
        /\ SubSeq(CallNames, n + 1, Len(calls)) = steps
        /\ \A i \in 1..n : calls[i].fn \in validation

\* a tts_generate call ran its validation calls, then synthesis, then
\* apply_audio_enhance, then audio_to_int16, each once and on the output of the step
\* before, and returned the enhancer's sample rate with the int16 audio
TtsRanAllSteps ==
    /\ result.kind = "tuple"
    /\ EndsWith(TtsValidation, <<"synthesize_audio", "apply_audio_enhance", "audio_to_int16">>)
    /\ TheCall("apply_audio_enhance").audio = <<"synthesize_audio">>
    /\ TheCall("apply_audio_enhance").sr = env.synth_sr
    /\ TheCall("apply_audio_enhance").enable_denoise = args.enable_denoise
    /\ TheCall("apply_audio_enhance").enable_enhance = args.enable_enhance
    /\ TheCall("audio_to_int16").audio = <<"synthesize_audio", "apply_audio_enhance">>
    /\ result.sr = env.enh_sr
    /\ result.audio = <<"synthesize_audio", "apply_audio_enhance", "audio_to_int16">>

\* the same of a synthesize_ssml call
SsmlRanAllSteps ==
    /\ result.kind = "tuple"
    /\ EndsWith({"parser.parse"},
                <<"SynthesizeSegments", "synthesize_segments", "combine_audio_segments",
                  "apply_audio_enhance", "audio_to_int16">>)
    /\ TheCall("apply_audio_enhance").sr = env.frame_rate
    /\ TheCall("audio_to_int16").audio = TheCall("apply_audio_enhance").audio
                                         \o <<"apply_audio_enhance">>
    /\ result.sr = env.enh_sr
    /\ result.audio = TheCall("audio_to_int16").audio \o <<"audio_to_int16">>

C9_Prefix ==
    op = "segments_length_limit" =>
      result.segments = SubSeq(args.segments, 1, FirstOver(args.segments, args.total_max) - 1)

\* a call that kept a break past an exhausted budget and dropped a later run that fits
C9_Witness ==
    /\ op = "segments_length_limit"
    /\ \E i \in 1..Len(result.segments) :
         result.segments[i].kind = "break" /\ TextLen(args.segments, i) = args.total_max
    /\ \E j \in (Len(result.segments) + 2)..Len(args.segments) :
         /\ args.segments[j].kind = "text"
         /\ TextLen(result.segments, Len(result.segments)) + Len(args.segments[j].text)
              <= args.total_max

\* whether a numeric seed lies in -1 .. 2**32 - 1
SeedInRange(u) ==
    \/ u.t = "int" /\ ~IntLess(u, PyInt(-1)) /\ ~IntLess(PyBig(Limb - 1, Limb - 1), u)
    \/ u.t = "float" /\ Small(u) >= -10

\* the user's temperature, prefix, prompt1 and prompt2 reach synthesize_audio whenever
\* they are present (not None, "" or 0)
UserValuesWin ==
    LET c == TheCall("synthesize_audio")
    IN  /\ Truthy(args.temperature) => c.temperature = args.temperature
        /\ Truthy(args.prefix) => c.prefix = args.prefix
        /\ Truthy(args.prompt1) => c.prompt1 = args.prompt1
        /\ Truthy(args.prompt2) => c.prompt2 = args.prompt2

\* C10 as stated: the user's value wins for each of the five parameters, and a user's
\* seed in -1 .. 2**32 - 1 reaches synthesize_audio unchanged
C10_UserSeedUnchanged ==
    (op = "tts_generate" /\ CallsTo("synthesize_audio") # {}) =>
      /\ UserValuesWin
      /\ (Truthy(args.infer_seed) /\ SeedInRange(args.infer_seed)) =>
           TheCall("synthesize_audio").infer_seed = args.infer_seed

\* C10 amended: the user's value wins for each of the five parameters; a user's int
\* seed in -1 .. 2**32 - 1 reaches synthesize_audio unchanged, and a user's float seed
\* in that range reaches it truncated toward zero, whatever seed the style sets
C10_UserIntSeedUnchanged ==
    (op = "tts_generate" /\ CallsTo("synthesize_audio") # {}) =>
      /\ UserValuesWin
      /\ (Truthy(args.infer_seed) /\ SeedInRange(args.infer_seed)) =>
           /\ args.infer_seed.t = "int" =>
                TheCall("synthesize_audio").infer_seed = args.infer_seed
           /\ args.infer_seed.t = "float" =>
                TheCall("synthesize_audio").infer_seed = PyInt(TruncTenths(Small(args.infer_seed)))

\* a call in which the style sets all five and the user's values were forwarded
C10_Witness ==
    /\ op = "tts_generate"
    /\ CallsTo("synthesize_audio") # {}
    /\ {"seed", "temperature", "prefix", "prompt1", "prompt2"} \subseteq DOMAIN env.params
    /\ args.infer_seed = PyInt(42) /\ TheCall("synthesize_audio").infer_seed = PyInt(42)
    /\ Truthy(args.prefix) /\ Truthy(args.prompt1) /\ Truthy(args.prompt2)
    /\ Truthy(args.temperature)

====
